---- MODULE Spec2Model ----
(***************************************************************************)
(* A model of the presf_abc_dcl wave/tide parser                           *)
(* (mi/dataset/parser/presf_abc_dcl.py): the boundary sieve                *)
(* PresfAbcDclParser.sieve_function, one action per branch of its line     *)
(* loop, followed by the chunk source and PresfAbcDclParser.parse_chunks.  *)
(*                                                                         *)
(* A span is a sequence of newline-terminated physical lines, optionally   *)
(* followed by the bytes of an incomplete last line.  A line is named by   *)
(* the one grammar it matches ("junk": none of the six); its length in     *)
(* bytes is the length of its text plus the length of the newline.         *)
(***************************************************************************)
EXTENDS Integers, Sequences, FiniteSets

\* ------------------------------------------------------------- bounds
MaxLines == 5
MaxLinesShort == 4
MaxItems == 2
MaxResumes == 1
MaxPieces == 4
MaxLinesPair == 3

\* num_records of the calls of get_records
NumRecords == {1, 2}

\* ---------------------------------------------------------- constants
WAVE_RECORD_NOTINPROCESS == 0
WAVE_RECORD_STARTED == 1
WAVE_RECORD_PTFREQ == 2
WAVE_RECORD_CONT == 3

\* wave_record_start_index is not bound before the first start line
Unbound == -1

\* The value None of the chunk source's "nothing to give" tuples
None == <<>>

Kinds == {"meta", "tide", "wstart", "ptfreq", "cont", "wend", "junk"}

\* NEW_LINE = (?:\r\n|\n): the lines of a span end with "\r\n"
NEW_LINE == 2

\* The span ends with a newline, or with one byte of an incomplete line
TailLens == {0, 1}

VARIABLES
    raw_data,                 \* the span's complete lines: kind, start, len
    tail,                     \* bytes of the incomplete last line (0: none)
    data_index,               \* sieve_function: scan offset
    return_list,              \* sieve_function: ranges found so far
    wave_record_inprocess,    \* sieve_function: burst state
    wave_record_start_index,  \* sieve_function: offset of the open burst
    anomalies,                \* RecoverableSampleException raised by the sieve
    retval,                   \* what sieve_function returned to its caller
    data_chunk_list,          \* chunk source: data chunks not yet fetched
    nondata_chunk_list,       \* chunk source: non-data chunks not yet fetched
    chunk,                    \* parse_chunks: (start, end) of the data chunk
    result_particles,         \* parse_chunks: particles built so far
    exceptions,               \* spans handed to _exception_callback
    pc,                       \* where the control is
    calls,                    \* calls of sieve_function made on the span
    first,                    \* how the first of them ended
    file,                     \* the lines of the input file: kind, start, len
    file_tail,                \* bytes of the file's incomplete last line
    position,                 \* input_file: the offset of the next read
    origin,                   \* file offset of each line of raw_data
    record_buffer,            \* _record_buffer: particles not yet handed out
    want,                     \* get_records: num_records
    emitted,                  \* particles handed out since the last set_state
    ends,                     \* end offsets of all particles handed out
    resumed,                  \* the last set_state that took effect
    state_obj,                \* set_state: its last argument
    state_error,              \* whether the last set_state raised
    ctd_chunks,               \* CTD chunk source: its data chunks
    ctd_fetched,              \* CTD chunk source: data chunks given out
    ctd_chunk,                \* CtdmoParser.parse_chunks: chunk
    ctd_scan,                 \* offset in chunk that finditer searches from
    ctd_timestamp,            \* CtdmoParser: self._timestamp
    ctd_particles,            \* CtdmoParser.parse_chunks: result_particles
    peer,                     \* a second parser object: its state while it waits
    running                   \* which of the two parser objects is at work

sieveVars == <<data_index, return_list, wave_record_inprocess,
               wave_record_start_index, anomalies, retval>>
parseVars == <<data_chunk_list, nondata_chunk_list, chunk, result_particles,
               exceptions>>
inputVars == <<raw_data, tail>>
callVars == <<calls, first>>
sessionVars == <<file, file_tail, position, origin, record_buffer, want, emitted, ends,
                 resumed, state_obj, state_error>>
ctdVars == <<ctd_chunks, ctd_fetched, ctd_chunk, ctd_scan, ctd_timestamp, ctd_particles>>
peerVars == <<peer, running>>
otherVars == <<callVars, sessionVars, ctdVars, peerVars>>
vars == <<raw_data, tail, data_index, return_list, wave_record_inprocess,
          wave_record_start_index, anomalies, retval, data_chunk_list,
          nondata_chunk_list, chunk, result_particles, exceptions, pc,
          otherVars>>

\* ------------------------------------------------------------ the span

\* Bytes of a line's text, before its newline
BodyLen(kind) ==
    CASE kind = "meta" -> 3
      [] kind = "tide" -> 4
      [] kind = "wstart" -> 3
      [] kind = "ptfreq" -> 2
      [] kind = "cont" -> 1
      [] kind = "wend" -> 2
      [] OTHER -> 0

RECURSIVE StartOf(_, _)
\* Offset of the first byte of line i of the lines of kinds ks
StartOf(ks, i) ==
    IF i <= 1 THEN 0 ELSE StartOf(ks, i - 1) + BodyLen(ks[i - 1]) + NEW_LINE

\* The lines of kinds ks laid out from offset 0
Layout(ks) ==
    [i \in 1..Len(ks) |->
        [kind |-> ks[i], start |-> StartOf(ks, i), len |-> BodyLen(ks[i]) + NEW_LINE]]

\* Offset of the first byte of line i (of the byte after the last line for
\* i = Len(raw_data) + 1)
Offset(i) ==
    IF i <= Len(raw_data) THEN raw_data[i].start
    ELSE IF i = 1 THEN 0
    ELSE raw_data[i - 1].start + raw_data[i - 1].len

CompleteLen == Offset(Len(raw_data) + 1)

\* raw_data_len = len(raw_data)
raw_data_len == CompleteLen + tail

\* The complete lines that hold byte idx
LinesOver(idx) ==
    {i \in 1..Len(raw_data) :
        raw_data[i].start <= idx /\ idx < raw_data[i].start + raw_data[i].len}

LineOver(idx) == CHOOSE i \in LinesOver(idx) : TRUE

\* The rest of the complete line that holds byte idx, as the text of a line:
\* from the middle of a line it starts with no timestamp and matches no grammar
RestOfLine(idx) ==
    LET i == LineOver(idx)
    IN  IF raw_data[i].start = idx
        THEN [kind |-> raw_data[i].kind, len |-> raw_data[i].len]
        ELSE [kind |-> "junk", len |-> raw_data[i].start + raw_data[i].len - idx]

\* As PRESF_RECORD_MATCHER, with the newline optional
PRESF_RECORD_MATCHER_Partial(idx) ==
    IF idx >= CompleteLen
    THEN [kind |-> "junk", len |-> raw_data_len - idx]
    ELSE RestOfLine(idx)

\* PRESF_RECORD_MATCHER.match(raw_data[idx:]): the text up to and including
\* the next newline, None when no newline follows
PRESF_RECORD_MATCHER(idx) ==
    IF idx >= CompleteLen THEN None ELSE RestOfLine(idx)

METADATA_MATCHER(line) == line.kind = "meta"
TIDE_MATCHER(line) == line.kind = "tide"
WAVE_START_MATCHER(line) == line.kind = "wstart"
WAVE_PTFREQ_MATCHER(line) == line.kind = "ptfreq"
WAVE_CONT_MATCHER(line) == line.kind = "cont"
WAVE_END_MATCHER(line) == line.kind = "wend"

\* ------------------------------------------------------ sieve_function

record_match == PRESF_RECORD_MATCHER(data_index)

Branch_Lenient(line) == IF line.kind = "junk" THEN "meta" ELSE line.kind

\* The branch of the loop body that a matched line takes: the first of the
\* six tests, in the order of the code, that the line passes
Branch(line) ==
    IF METADATA_MATCHER(line) THEN "meta"
    ELSE IF TIDE_MATCHER(line) THEN "tide"
    ELSE IF WAVE_START_MATCHER(line) THEN "wstart"
    ELSE IF WAVE_PTFREQ_MATCHER(line) THEN "ptfreq"
    ELSE IF WAVE_CONT_MATCHER(line) THEN "cont"
    ELSE IF WAVE_END_MATCHER(line) THEN "wend"
    ELSE "unmatched"

\* Where one evaluation of the while statement goes
Step ==
    IF pc # "sieve" THEN "off"
    ELSE IF ~(data_index < raw_data_len) THEN "exit"
    ELSE IF record_match = None THEN "incomplete"
    ELSE Branch(record_match)

\* raise RecoverableSampleException: the call ends, nothing is returned
Raise ==
    /\ pc' = "raised"
    /\ anomalies' = anomalies + 1
    /\ UNCHANGED <<data_index, return_list, wave_record_inprocess,
                   wave_record_start_index, retval>>

TideRange(idx, len) == <<idx, idx + len>>

WaveRange_FromEnd(start_index, idx, len) == <<idx, idx + len>>
WaveRange(start_index, idx, len) == <<start_index, idx + len>>

WstartAccepted_Always(s) == TRUE
WstartAccepted(s) == s = WAVE_RECORD_NOTINPROCESS

WptfreqAccepted(s) == s = WAVE_RECORD_STARTED

WcontAccepted_Started(s) == s # WAVE_RECORD_NOTINPROCESS
WcontAccepted(s) == s = WAVE_RECORD_PTFREQ \/ s = WAVE_RECORD_CONT

WendAccepted_Ptfreq(s) == s = WAVE_RECORD_PTFREQ \/ s = WAVE_RECORD_CONT
WendAccepted(s) == s = WAVE_RECORD_CONT

SieveMeta_Stay ==
    /\ Step = "meta"
    /\ UNCHANGED <<sieveVars, pc>>
    /\ UNCHANGED <<inputVars, parseVars, otherVars>>

SieveMeta ==
    /\ Step = "meta"
    /\ data_index' = data_index + record_match.len
    /\ UNCHANGED <<return_list, wave_record_inprocess,
                   wave_record_start_index, anomalies, retval, pc>>
    /\ UNCHANGED <<inputVars, parseVars, otherVars>>

SieveTide_Closing ==
    /\ Step = "tide"
    /\ return_list' = Append(return_list, TideRange(data_index, record_match.len))
    /\ data_index' = data_index + record_match.len
    /\ wave_record_inprocess' = WAVE_RECORD_NOTINPROCESS
    /\ UNCHANGED <<wave_record_start_index, anomalies, retval, pc>>
    /\ UNCHANGED <<inputVars, parseVars, otherVars>>

SieveTide ==
    /\ Step = "tide"
    /\ return_list' = Append(return_list, TideRange(data_index, record_match.len))
    /\ data_index' = data_index + record_match.len
    /\ UNCHANGED <<wave_record_inprocess, wave_record_start_index, anomalies,
                   retval, pc>>
    /\ UNCHANGED <<inputVars, parseVars, otherVars>>

SieveWstart ==
    /\ Step = "wstart"
    /\ IF ~WstartAccepted(wave_record_inprocess)
       THEN Raise
       ELSE /\ wave_record_inprocess' = WAVE_RECORD_STARTED
            /\ wave_record_start_index' = data_index
            /\ data_index' = data_index + record_match.len
            /\ UNCHANGED <<return_list, anomalies, retval, pc>>
    /\ UNCHANGED <<inputVars, parseVars, otherVars>>

SieveWptfreq ==
    /\ Step = "ptfreq"
    /\ IF ~WptfreqAccepted(wave_record_inprocess)
       THEN Raise
       ELSE /\ wave_record_inprocess' = WAVE_RECORD_PTFREQ
            /\ data_index' = data_index + record_match.len
            /\ UNCHANGED <<return_list, wave_record_start_index, anomalies,
                           retval, pc>>
    /\ UNCHANGED <<inputVars, parseVars, otherVars>>

SieveWcont ==
    /\ Step = "cont"
    /\ IF ~WcontAccepted(wave_record_inprocess)
       THEN Raise
       ELSE /\ wave_record_inprocess' = WAVE_RECORD_CONT
            /\ data_index' = data_index + record_match.len
            /\ UNCHANGED <<return_list, wave_record_start_index, anomalies,
                           retval, pc>>
    /\ UNCHANGED <<inputVars, parseVars, otherVars>>

SieveWend ==
    /\ Step = "wend"
    /\ IF ~WendAccepted(wave_record_inprocess)
       THEN Raise
       ELSE /\ wave_record_inprocess' = WAVE_RECORD_NOTINPROCESS
            /\ return_list' = Append(return_list,
                   WaveRange(wave_record_start_index, data_index, record_match.len))
            /\ data_index' = data_index + record_match.len
            /\ UNCHANGED <<wave_record_start_index, anomalies, retval, pc>>
    /\ UNCHANGED <<inputVars, parseVars, otherVars>>

\* a complete line that matches none of the six grammars
SieveUnmatched ==
    /\ Step = "unmatched"
    /\ Raise
    /\ UNCHANGED <<inputVars, parseVars, otherVars>>

\* "not a complete record left": break, then return return_list
SieveIncomplete ==
    /\ Step = "incomplete"
    /\ pc' = "returned"
    /\ retval' = return_list
    /\ UNCHANGED <<data_index, return_list, wave_record_inprocess,
                   wave_record_start_index, anomalies>>
    /\ UNCHANGED <<inputVars, parseVars, otherVars>>

\* the while condition fails: return return_list
SieveReturn ==
    /\ Step = "exit"
    /\ pc' = "returned"
    /\ retval' = return_list
    /\ UNCHANGED <<data_index, return_list, wave_record_inprocess,
                   wave_record_start_index, anomalies>>
    /\ UNCHANGED <<inputVars, parseVars, otherVars>>

sieve_function ==
    \/ SieveMeta
    \/ SieveTide
    \/ SieveWstart
    \/ SieveWptfreq
    \/ SieveWcont
    \/ SieveWend
    \/ SieveUnmatched
    \/ SieveIncomplete
    \/ SieveReturn

\* The burst state a call begins in, whatever state the call before ended in
EntryState_Kept(s) == s
EntryState(s) == WAVE_RECORD_NOTINPROCESS

\* The caller calls sieve_function once more on the same span: the locals of
\* the call are bound anew (lines 534-539)
SieveCall ==
    /\ pc \in {"returned", "raised"}
    /\ calls = 1
    /\ calls' = 2
    /\ first' = [pc |-> pc, retval |-> retval]
    /\ data_index' = 0
    /\ return_list' = <<>>
    /\ wave_record_inprocess' = EntryState(wave_record_inprocess)
    /\ wave_record_start_index' = Unbound
    /\ retval' = <<>>
    /\ pc' = "sieve"
    /\ UNCHANGED anomalies
    /\ UNCHANGED <<inputVars, parseVars, sessionVars, ctdVars, peerVars>>

\* --------------------------------------------------------- chunk source

RECURSIVE Increasing(_)
\* RecordRange invariant: start < end, each range at or after the one before
Increasing(ranges) ==
    IF Len(ranges) = 0 THEN TRUE
    ELSE /\ ranges[1][1] < ranges[1][2]
         /\ Len(ranges) > 1 => ranges[1][2] <= ranges[2][1]
         /\ Increasing(Tail(ranges))

RECURSIVE GapsBefore(_, _)
\* The bytes from offset from on that lie before each range and in none
GapsBefore(ranges, from) ==
    IF Len(ranges) = 0 THEN <<>>
    ELSE (IF from < ranges[1][1] THEN <<(<<from, ranges[1][1]>>)>> ELSE <<>>)
         \o GapsBefore(Tail(ranges), ranges[1][2])

LastEnd(ranges) == IF Len(ranges) = 0 THEN 0 ELSE ranges[Len(ranges)][2]

\* The bytes after the last range
GapAfter(ranges) ==
    IF LastEnd(ranges) < raw_data_len
    THEN <<(<<LastEnd(ranges), raw_data_len>>)>>
    ELSE <<>>

\* add_chunk: the ranges of the sieve are the data chunks, the bytes between
\* them the non-data chunks; the bytes after the last range may or may not be
\* given out as a non-data chunk
MakeChunks ==
    /\ pc = "returned"
    /\ Increasing(retval)
    /\ data_chunk_list' = retval
    /\ \E trailing \in BOOLEAN :
          nondata_chunk_list' =
              GapsBefore(retval, 0) \o (IF trailing THEN GapAfter(retval) ELSE <<>>)
    /\ pc' = "parse"
    /\ UNCHANGED <<chunk, result_particles, exceptions>>
    /\ UNCHANGED <<inputVars, sieveVars, otherVars>>

\* get_next_non_data_with_index(clean=False): the first non-data chunk
NextNonData(nd) == IF Len(nd) = 0 THEN None ELSE Head(nd)

\* get_next_data_with_index(clean=True): the first data chunk
NextData(dl) == IF Len(dl) = 0 THEN None ELSE Head(dl)

Rest(list) == IF Len(list) = 0 THEN list ELSE Tail(list)

\* clean=True: what lies before the end of the chunk given out is dropped
Cleaned(nd, c) ==
    IF c = None THEN nd ELSE SelectSeq(nd, LAMBDA g : g[1] >= c[2])

\* --------------------------------------------------------- parse_chunks

\* The first line of the bytes from offset idx on, as a matcher sees it
FirstLine(idx) ==
    IF idx < CompleteLen THEN RestOfLine(idx)
    ELSE [kind |-> "junk", len |-> raw_data_len - idx]

NonEndLeStart_NoneLast(non_data, c) == IF c = None THEN TRUE ELSE non_data[2] <= c[1]

\* non_end <= start, where start is None when there is no data chunk c: None
\* sorts before every number
NonEndLeStart(non_data, c) == IF c = None THEN FALSE ELSE non_data[2] <= c[1]

HandleNonData_NoMeta(non_data, c) ==
    /\ non_data # None
    /\ NonEndLeStart(non_data, c)

\* handle_non_data: whether _exception_callback is called
HandleNonData(non_data, c) ==
    /\ non_data # None
    /\ NonEndLeStart(non_data, c)
    /\ ~METADATA_MATCHER(FirstLine(non_data[1]))

\* match.group(name) of the line at offset idx of the span: a piece of text,
\* named by the line it stands on
Group(idx, name) == [line |-> idx, group |-> name]

\* A local of a decoder before its first assignment
Unset == [line |-> Unbound, group |-> "unset"]

\* The groups of TIDE_REGEX, in the order of their opening brackets
TideGroups ==
    <<"dcl_timestamp", "year", "month", "day", "whitespace", "hour", "minute",
      "second", "whitespace", "whitespace", "whitespace", "date_time_string",
      "whitespace", "whitespace", "absolute_pressure", "whitespace",
      "whitespace", "pressure_temperature", "whitespace", "whitespace",
      "seawater_temperature">>

TIDE_GROUP_DCL_TIMESTAMP == 1
TIDE_GROUP_YEAR == 2
TIDE_GROUP_MONTH == 3
TIDE_GROUP_DAY == 4
TIDE_GROUP_HOUR == 6
TIDE_GROUP_MINUTE == 7
TIDE_GROUP_SECOND == 8
TIDE_GROUP_DATA_TIME_STRING == 12
TIDE_GROUP_ABSOLUTE_PRESSURE == 15
TIDE_GROUP_PRESSURE_TEMPERATURE == 18
TIDE_GROUP_SEAWATER_TEMPERATURE == 21

TIDE_PARTICLE_MAP ==
    <<(<<"dcl_controller_timestamp", TIDE_GROUP_DCL_TIMESTAMP, "str">>),
      (<<"date_time_string", TIDE_GROUP_DATA_TIME_STRING, "str">>),
      (<<"absolute_pressure", TIDE_GROUP_ABSOLUTE_PRESSURE, "float">>),
      (<<"pressure_temperature", TIDE_GROUP_PRESSURE_TEMPERATURE, "float">>),
      (<<"seawater_temperature", TIDE_GROUP_SEAWATER_TEMPERATURE, "float">>)>>

\* tide_match.group(n) of the tide line at offset idx
TideGroup(idx, n) == Group(idx, TideGroups[n])

\* The groups of WAVE_START_REGEX, in the order of their opening brackets
WaveStartGroups ==
    <<"dcl_timestamp", "year", "month", "day", "whitespace", "hour", "minute",
      "second", "whitespace", "whitespace", "whitespace", "date_time_string">>

WAVE_START_GROUP_YEAR == 2
WAVE_START_GROUP_MONTH == 3
WAVE_START_GROUP_DAY == 4
WAVE_START_GROUP_HOUR == 6
WAVE_START_GROUP_MINUTE == 7
WAVE_START_GROUP_SECOND == 8

\* wave_match.group(n) of the start line at offset idx
WaveStartGroup(idx, n) == Group(idx, WaveStartGroups[n])

\* What the controller clock showed when it stamped the line at offset idx
\* of the span: no two lines of a span bear the same time, and the dates fall
\* before and after the leap day of leap and common years
ClockOf(idx) ==
    [year |-> 2012 + (idx % 5), month |-> 1 + (idx % 12), day |-> 1 + (idx % 28),
     hour |-> idx % 24, minute |-> (7 * idx) % 60, second |-> idx % 60]

Char(d) ==
    CASE d = 0 -> "0" [] d = 1 -> "1" [] d = 2 -> "2" [] d = 3 -> "3"
      [] d = 4 -> "4" [] d = 5 -> "5" [] d = 6 -> "6" [] d = 7 -> "7"
      [] d = 8 -> "8" [] d = 9 -> "9"

\* \d{2} and \d{4}: a number in two and in four digits
TwoDigits(n) == <<Char((n \div 10) % 10), Char(n % 10)>>
FourDigits(n) == TwoDigits(n \div 100) \o TwoDigits(n % 100)

\* The characters of a group; every line of the model begins with the
\* reading of the controller clock, "YYYY/MM/DD HH:MM:SS.mmm", and every tide
\* line reads "... tide: start time = ..., p = 14.6612, pt = 11.380, t = 11.5248"
Written(g) ==
    CASE g.group = "year" -> FourDigits(ClockOf(g.line).year)
      [] g.group = "month" -> TwoDigits(ClockOf(g.line).month)
      [] g.group = "day" -> TwoDigits(ClockOf(g.line).day)
      [] g.group = "hour" -> TwoDigits(ClockOf(g.line).hour)
      [] g.group = "minute" -> TwoDigits(ClockOf(g.line).minute)
      [] g.group = "second" -> TwoDigits(ClockOf(g.line).second)
      [] g.group = "absolute_pressure" -> <<"1", "4", ".", "6", "6", "1", "2">>
      [] g.group = "pressure_temperature" -> <<"1", "1", ".", "3", "8", "0">>
      [] g.group = "seawater_temperature" -> <<"1", "1", ".", "5", "2", "4", "8">>
      [] OTHER -> <<g.group>>

Digit(ch) ==
    CASE ch = "0" -> 0 [] ch = "1" -> 1 [] ch = "2" -> 2 [] ch = "3" -> 3
      [] ch = "4" -> 4 [] ch = "5" -> 5 [] ch = "6" -> 6 [] ch = "7" -> 7
      [] ch = "8" -> 8 [] ch = "9" -> 9

RECURSIVE Digits(_)
\* The number that a run of digits writes
Digits(chars) ==
    IF Len(chars) = 0 THEN 0
    ELSE Digits(SubSeq(chars, 1, Len(chars) - 1)) * 10 + Digit(chars[Len(chars)])

RECURSIVE Pow10(_)
Pow10(n) == IF n = 0 THEN 1 ELSE 10 * Pow10(n - 1)

\* Where the decimal point of a number stands (after its end: no point)
PointAt(chars) ==
    IF \E i \in DOMAIN chars : chars[i] = "."
    THEN CHOOSE i \in DOMAIN chars : chars[i] = "."
    ELSE Len(chars) + 1

float_Whole(chars) ==
    [num |-> Digits(SubSeq(chars, 1, PointAt(chars) - 1)), den |-> 1]

\* float(text) of a text that FLOAT matches: digits, a point, digits
float(chars) ==
    [num |-> Digits(SubSeq(chars, 1, PointAt(chars) - 1)
                    \o SubSeq(chars, PointAt(chars) + 1, Len(chars))),
     den |-> Pow10(Len(SubSeq(chars, PointAt(chars) + 1, Len(chars))))]

\* _encode_value(name, value, function)
EncodeValue(name, g, function) ==
    [value_id |-> name, from |-> g,
     value |-> IF function = "float" THEN float(Written(g)) ELSE Written(g)]

\* int(text) of a run of digits
int(chars) == Digits(chars)

\* Whether year is a leap year
isleap(year) == year % 4 = 0 /\ (year % 100 # 0 \/ year % 400 = 0)

\* The days of the years before year, counted from year 1
DaysBeforeYear(year) ==
    LET y == year - 1
    IN  y * 365 + (y \div 4) - (y \div 100) + (y \div 400)

DaysInMonth(year, month) ==
    IF month = 2 THEN (IF isleap(year) THEN 29 ELSE 28)
    ELSE IF month \in {4, 6, 9, 11} THEN 30 ELSE 31

RECURSIVE DaysBeforeMonth(_, _)
\* The days of year before the first of month
DaysBeforeMonth(year, month) ==
    IF month <= 1 THEN 0
    ELSE DaysBeforeMonth(year, month - 1) + DaysInMonth(year, month - 1)

\* datetime.date(year, month, day).toordinal(): 1 for 1 January of year 1
toordinal(year, month, day) == DaysBeforeYear(year) + DaysBeforeMonth(year, month) + day

\* datetime.date(1970, 1, 1).toordinal()
EPOCH_ORD == toordinal(1970, 1, 1)

\* calendar.timegm: the seconds from 1970-01-01 00:00:00 UTC to the
\* year, month, day, hour, minute, second of t taken as UTC
timegm(t) ==
    LET days == toordinal(t[1], t[2], 1) - EPOCH_ORD + t[3] - 1
        hours == days * 24 + t[4]
        minutes == hours * 60 + t[5]
    IN  minutes * 60 + t[6]

\* PresfAbcDclParserTideDataParticle.__init__: elapsed_seconds, read from
\* the timestamp groups of TIDE_MATCHER matched at the head of the chunk
TideInit(c) ==
    LET timestamp == <<int(Written(TideGroup(c[1], TIDE_GROUP_YEAR))),
                       int(Written(TideGroup(c[1], TIDE_GROUP_MONTH))),
                       int(Written(TideGroup(c[1], TIDE_GROUP_DAY))),
                       int(Written(TideGroup(c[1], TIDE_GROUP_HOUR))),
                       int(Written(TideGroup(c[1], TIDE_GROUP_MINUTE))),
                       int(Written(TideGroup(c[1], TIDE_GROUP_SECOND))),
                       0, 0, 0>>
    IN  timegm(timestamp)

\* PresfAbcDclParserTideDataParticle._build_parsed_values: the five groups of
\* TIDE_PARTICLE_MAP, matched at the head of the chunk
TideValues(c) ==
    [status |-> "ok",
     result |-> [k \in DOMAIN TIDE_PARTICLE_MAP |->
                   EncodeValue(TIDE_PARTICLE_MAP[k][1],
                               TideGroup(c[1], TIDE_PARTICLE_MAP[k][2]),
                               TIDE_PARTICLE_MAP[k][3])]]

\* PRESF_RECORD_MATCHER.match(self.raw_data[index:]) on the bytes of chunk c
ChunkLine(c, index) ==
    LET line == PRESF_RECORD_MATCHER(c[1] + index)
    IN  IF line = None THEN None
        ELSE IF c[1] + index + line.len > c[2] THEN None
        ELSE line

BurstAppend_Front(list, value) == <<value>> \o list
\* absolute_pressure_burst.append(...)
BurstAppend(list, value) == Append(list, value)

RECURSIVE WaveLoop(_, _, _)
\* The line loop of the wave decoder from offset index of chunk c on; a line
\* that passes none of its four tests leaves index as it is, and the loop
\* never ends ("hang")
WaveLoop(c, index, acc) ==
    IF ~(index < c[2] - c[1]) THEN acc
    ELSE LET line == ChunkLine(c, index)
         IN  IF line = None THEN [acc EXCEPT !.status = "raise"]
             ELSE IF WAVE_START_MATCHER(line)
             THEN WaveLoop(c, index + line.len,
                      [acc EXCEPT
                          !.dcl_controller_start_timestamp = Group(c[1], "dcl_timestamp"),
                          !.date_time_string = Group(c[1], "date_time_string")])
             ELSE IF WAVE_PTFREQ_MATCHER(line)
             THEN WaveLoop(c, index + line.len,
                      [acc EXCEPT
                          !.ptemp_frequency = Group(c[1] + index, "ptemp_frequency")])
             ELSE IF WAVE_CONT_MATCHER(line)
             THEN WaveLoop(c, index + line.len,
                      [acc EXCEPT
                          !.absolute_pressure_burst =
                              BurstAppend(@, Group(c[1] + index, "absolute_pressure"))])
             ELSE IF WAVE_END_MATCHER(line)
             THEN WaveLoop(c, index + line.len,
                      [acc EXCEPT
                          !.dcl_controller_end_timestamp =
                              Group(c[1] + index, "dcl_timestamp")])
             ELSE [acc EXCEPT !.status = "hang"]

\* The line that WAVE_START_MATCHER.match(raw_data) matches: the one at the
\* head of the chunk
WaveMatchLine_Last(c) == LineOver(c[2] - 1)
WaveMatchLine(c) == LineOver(c[1])

\* PresfAbcDclParserWaveDataParticle.__init__: elapsed_seconds, read from
\* the timestamp groups of WAVE_START_MATCHER matched at the head of the chunk
WaveInit(c) ==
    LET at == Offset(WaveMatchLine(c))
        timestamp == <<int(Written(WaveStartGroup(at, WAVE_START_GROUP_YEAR))),
                       int(Written(WaveStartGroup(at, WAVE_START_GROUP_MONTH))),
                       int(Written(WaveStartGroup(at, WAVE_START_GROUP_DAY))),
                       int(Written(WaveStartGroup(at, WAVE_START_GROUP_HOUR))),
                       int(Written(WaveStartGroup(at, WAVE_START_GROUP_MINUTE))),
                       int(Written(WaveStartGroup(at, WAVE_START_GROUP_SECOND))),
                       0, 0, 0>>
    IN  timegm(timestamp)

\* PresfAbcDclParserWaveDataParticle._build_parsed_values: the loop, then the
\* five values are encoded, which fails on a local never assigned
WaveValues(c) ==
    LET r == WaveLoop(c, 0,
                 [status |-> "run",
                  dcl_controller_start_timestamp |-> Unset,
                  dcl_controller_end_timestamp |-> Unset,
                  date_time_string |-> Unset,
                  ptemp_frequency |-> Unset,
                  absolute_pressure_burst |-> <<>>])
    IN  IF r.status # "run" THEN r
        ELSE IF Unset \in {r.dcl_controller_start_timestamp,
                           r.dcl_controller_end_timestamp,
                           r.date_time_string, r.ptemp_frequency}
        THEN [r EXCEPT !.status = "unbound"]
        ELSE [r EXCEPT !.status = "ok"]

\* _extract_sample: the particle of a chunk, with the time its class sets
\* when it is made (set_internal_timestamp(unix_time=elapsed_seconds)) and the
\* values its class decodes
Particle(type, c) ==
    [type |-> type, start |-> c[1], end |-> c[2],
     unix_time |-> IF type = "wave" THEN WaveInit(c) ELSE TideInit(c),
     values |-> IF type = "wave" THEN WaveValues(c) ELSE TideValues(c)]

\* The particles parse_chunks appends for one chunk
ParticlesOf(c) ==
    (IF WAVE_START_MATCHER(FirstLine(c[1])) THEN <<Particle("wave", c)>> ELSE <<>>)
    \o (IF TIDE_MATCHER(FirstLine(c[1])) THEN <<Particle("tide", c)>> ELSE <<>>)

\* The two fetches and handle_non_data (lines 454-461 and 492-499)
Fetch ==
    LET non_data == NextNonData(nondata_chunk_list)
        c == NextData(data_chunk_list)
    IN  /\ chunk' = c
        /\ data_chunk_list' = Rest(data_chunk_list)
        /\ nondata_chunk_list' = Cleaned(Rest(nondata_chunk_list), c)
        /\ exceptions' = IF HandleNonData(non_data, c)
                         THEN Append(exceptions, non_data)
                         ELSE exceptions

ParseBegin ==
    /\ pc = "parse"
    /\ Fetch
    /\ pc' = "loop"
    /\ UNCHANGED result_particles
    /\ UNCHANGED <<inputVars, sieveVars, otherVars>>

\* Whether the decoding of a particle of chunk c never ends
Hangs(c) ==
    \E k \in DOMAIN ParticlesOf(c) : ParticlesOf(c)[k].values.status = "hang"

\* one turn of "while chunk is not None"; the turn never ends when the wave
\* decoder does not
ParseChunk ==
    /\ pc = "loop"
    /\ chunk # None
    /\ IF Hangs(chunk)
       THEN /\ pc' = "hang"
            /\ UNCHANGED parseVars
       ELSE /\ result_particles' = result_particles \o ParticlesOf(chunk)
            /\ Fetch
            /\ UNCHANGED pc
    /\ UNCHANGED <<inputVars, sieveVars, otherVars>>

ParseReturn ==
    /\ pc = "loop"
    /\ chunk = None
    /\ pc' = "done"
    /\ UNCHANGED parseVars
    /\ UNCHANGED <<inputVars, sieveVars, otherVars>>

parse_chunks ==
    \/ ParseBegin
    \/ ParseChunk
    \/ ParseReturn

\* -------------------------------------------------------------- session
\* One parser object over one input file: get_records reads the file from
\* input_file's offset into the chunk source, which runs the sieve over all
\* it holds, and hands out the particles of parse_chunks; set_state resumes.

\* A file is made of tide lines, whole bursts, bursts cut short, metadata
\* lines and lines of no grammar
Items == {"tide", "burst", "open", "meta", "junk"}

ItemLines(item) ==
    CASE item = "tide" -> <<"tide">>
      [] item = "burst" -> <<"wstart", "ptfreq", "cont", "wend">>
      [] item = "open" -> <<"wstart", "ptfreq", "cont">>
      [] item = "meta" -> <<"meta">>
      [] OTHER -> <<"junk">>

RECURSIVE Flatten(_)
Flatten(items) ==
    IF Len(items) = 0 THEN <<>>
    ELSE ItemLines(Head(items)) \o Flatten(Tail(items))

Files ==
    {Layout(Flatten(items)) : items \in UNION {[1..n -> Items] : n \in 0..MaxItems}}

FileLen == IF Len(file) = 0 THEN 0 ELSE file[Len(file)].start + file[Len(file)].len

\* The offsets a record can end at: the line boundaries of the file
Boundaries == {0} \cup {file[i].start + file[i].len : i \in 1..Len(file)}

\* input_file.read(): the lines from the offset of the next read on (and
\* then the bytes of the incomplete last line)
LinesFrom(p) == SelectSeq(file, LAMBDA l : l.start >= p)

StartsOf(lines) == [i \in 1..Len(lines) |-> lines[i].start]

RECURSIVE StartIn(_, _)
StartIn(lines, i) ==
    IF i <= 1 THEN 0 ELSE StartIn(lines, i - 1) + lines[i - 1].len

\* The given lines laid out from offset 0
Relayout(lines) ==
    [i \in 1..Len(lines) |->
        [kind |-> lines[i].kind, start |-> StartIn(lines, i), len |-> lines[i].len]]

\* The bytes read, added to what the chunk source holds: the bytes of an
\* incomplete line held run on into the first line read, which then matches
\* no grammar
Joined(held, read) ==
    IF tail = 0 \/ Len(read) = 0 THEN held \o read
    ELSE held \o <<[kind |-> "junk", start |-> read[1].start,
                    len |-> tail + read[1].len]>> \o Tail(read)

\* The particle of the chunk pt, placed in the file
Placed(pt) ==
    LET i == LineOver(pt.start)
        j == LineOver(pt.end - 1)
    IN  [type |-> pt.type, start |-> origin[i], end |-> origin[j] + raw_data[j].len]

\* The lines of raw_data that the chunk source still holds once the data
\* chunks of retval were given out: those after the last of them
Consumed == Cardinality({i \in 1..Len(raw_data) : raw_data[i].start < LastEnd(retval)})

Min(a, b) == IF a < b THEN a ELSE b

\* _yank_particles: the first n particles of buf are handed out
Yank(n, buf) ==
    LET out == SubSeq(buf, 1, Min(n, Len(buf)))
    IN  /\ emitted' = emitted \o out
        /\ ends' = ends \cup {out[k].end : k \in DOMAIN out}
        /\ record_buffer' = SubSeq(buf, Len(out) + 1, Len(buf))

\* get_records(n): with n particles at hand, or nothing left to read, the
\* particles at hand are handed out; otherwise the rest of the file is read
\* into the chunk source and the sieve runs over all it holds
GetRecords ==
    /\ pc = "idle"
    /\ \E n \in NumRecords :
          /\ want' = n
          /\ IF Len(record_buffer) >= n \/ position >= FileLen + file_tail
             THEN /\ Yank(n, record_buffer)
                  /\ UNCHANGED <<raw_data, tail, origin, position, pc, sieveVars,
                                 parseVars>>
             ELSE /\ raw_data' = Relayout(Joined(raw_data, LinesFrom(position)))
                  /\ tail' = IF Len(LinesFrom(position)) = 0
                             THEN tail + file_tail ELSE file_tail
                  /\ origin' = origin \o StartsOf(LinesFrom(position))
                  /\ position' = FileLen + file_tail
                  /\ data_index' = 0
                  /\ return_list' = <<>>
                  /\ wave_record_inprocess' = EntryState(wave_record_inprocess)
                  /\ wave_record_start_index' = Unbound
                  /\ anomalies' = 0
                  /\ retval' = <<>>
                  /\ data_chunk_list' = <<>>
                  /\ nondata_chunk_list' = <<>>
                  /\ chunk' = None
                  /\ result_particles' = <<>>
                  /\ exceptions' = <<>>
                  /\ pc' = "sieve"
                  /\ UNCHANGED <<record_buffer, emitted, ends>>
    /\ UNCHANGED <<callVars, peerVars, file, file_tail, resumed, state_obj, state_error>>
    /\ UNCHANGED ctdVars

\* get_records, after parse_chunks: its particles join _record_buffer and the
\* first num_records are handed out
Collect ==
    /\ pc = "done"
    /\ Yank(want, record_buffer \o [k \in DOMAIN result_particles |->
                                      Placed(result_particles[k])])
    /\ raw_data' = Relayout(SubSeq(raw_data, Consumed + 1, Len(raw_data)))
    /\ origin' = SubSeq(origin, Consumed + 1, Len(origin))
    /\ pc' = "idle"
    /\ UNCHANGED <<tail, sieveVars, parseVars, callVars, peerVars, ctdVars>>
    /\ UNCHANGED <<file, file_tail, position, want, resumed, state_obj,
                   state_error>>

\* get_records, when the sieve raised: the exception goes to the caller
Failed ==
    /\ pc = "raised"
    /\ pc' = "idle"
    /\ UNCHANGED <<inputVars, sieveVars, parseVars, otherVars>>

POSITION == "position"

\* isinstance(state_obj, dict)
IsDict(s) == s.dict

HasPosition_Any(s) == TRUE
\* StateKey.POSITION in state_obj
HasPosition(s) == POSITION \in s.keys

SeekTarget_Start(s) == 0
\* state_obj[StateKey.POSITION]
SeekTarget(s) == s.position

\* The arguments of set_state: not a dictionary, a dictionary without the
\* key, a dictionary that holds an offset of the file
StateObjs ==
    {[dict |-> FALSE, keys |-> {}, position |-> 0],
     [dict |-> TRUE, keys |-> {}, position |-> 0]}
    \cup {[dict |-> TRUE, keys |-> {POSITION}, position |-> p] : p \in Boundaries}

\* The calls of set_state that took effect so far
Resumes == IF resumed = None THEN 0 ELSE resumed.count

set_state ==
    /\ pc = "idle"
    /\ Resumes < MaxResumes
    /\ \E s \in StateObjs :
          /\ state_obj' = s
          /\ IF ~IsDict(s) \/ ~HasPosition(s)
             THEN /\ state_error' = TRUE
                  /\ UNCHANGED <<record_buffer, position, emitted, resumed>>
             ELSE /\ state_error' = FALSE
                  /\ record_buffer' = <<>>
                  /\ position' = SeekTarget(s)
                  /\ emitted' = <<>>
                  /\ resumed' = [at |-> s.position, after_record |-> s.position \in ends,
                                  count |-> Resumes + 1]
    /\ UNCHANGED <<inputVars, sieveVars, parseVars, callVars, peerVars, ctdVars, pc>>
    /\ UNCHANGED <<file, file_tail, origin, want, ends>>

\* ------------------------------------------------------------------ CTD
\* CtdmoParser (mi/dataset/parser/ctdmo.py).  A chunk is a sequence of bytes
\* (0..255); offsets in a chunk count from 0.

\* DATA_REGEX = [\x00-\xFF]{8}([\x00-\xFF]{3}[\x16-\x40]{1})\x0d
LEAD_BYTES == 8
TIME_LOW_BYTES == 3
YEAR_FIRST == 22
YEAR_LAST == 64
DELIMITER == 13

\* Bytes of a match of DATA_REGEX
SAMPLE_LEN == LEAD_BYTES + TIME_LOW_BYTES + 1 + 1

\* [\x16-\x40]
YearByte(b) == YEAR_FIRST <= b /\ b <= YEAR_LAST

\* DATA_MATCHER matches the bytes of c from offset p on
DataMatch(c, p) ==
    /\ p >= 0
    /\ p + SAMPLE_LEN <= Len(c)
    /\ YearByte(c[p + LEAD_BYTES + TIME_LOW_BYTES + 1])
    /\ c[p + SAMPLE_LEN] = DELIMITER

NoMatch == -1

\* The start of the leftmost match at or after offset from, as the scan of
\* DATA_MATCHER.finditer finds it
Search(c, from) ==
    LET found == {p \in from..(Len(c) - SAMPLE_LEN) : DataMatch(c, p)}
    IN  IF found = {} THEN NoMatch
        ELSE CHOOSE p \in found : \A q \in found : p <= q

NextScan_Overlapping(p) == p + 1
\* finditer goes on after the end of the match
NextScan(p) == p + SAMPLE_LEN

\* binascii.b2a_hex: two hex digits for each byte, high digit first
b2a_hex(bytes) ==
    [i \in 1..(2 * Len(bytes)) |->
        IF i % 2 = 1 THEN bytes[(i + 1) \div 2] \div 16 ELSE bytes[i \div 2] % 16]

RECURSIVE int16(_)
\* int(digits, 16)
int16(digits) ==
    IF Len(digits) = 0 THEN 0
    ELSE int16(SubSeq(digits, 1, Len(digits) - 1)) * 16 + digits[Len(digits)]

\* seq[a:b]
Slice(seq, a, b) == SubSeq(seq, a + 1, b)

\* int / int of Python 2: the quotient without its fraction
IntDiv(a, b) == a \div b

\* A number as the fraction num / den
Rat(num, den) == [num |-> num, den |-> den]

TEMP_DIVISOR == 10000
TEMP_OFFSET == 10
COND_DIVISOR == 100000

\* temp = (temp_num / 10000) - 10
Temperature(temp_num) == Rat(IntDiv(temp_num, TEMP_DIVISOR) - TEMP_OFFSET, 1)

\* cond = (cond_num / 100000) - .5
Conductivity(cond_num) == Rat(2 * IntDiv(cond_num, COND_DIVISOR) - 1, 2)

PressByteSwap_None(asciihex) == Slice(asciihex, 12, 16)
\* press_byte_swap = asciihex[14:16] + asciihex[12:14]
PressByteSwap(asciihex) == Slice(asciihex, 14, 16) \o Slice(asciihex, 12, 14)

\* press = (press_num * pressure_range / (.85 * 65536)) - (.05 * pressure_range),
\* as a fraction of pressure_range
Pressure(press_num) == Rat(100 * press_num - 278528, 5570560)

CtdValues_Timed(raw) ==
    LET asciihex == b2a_hex(SubSeq(raw, 1, SAMPLE_LEN))
        temp_num == int16(Slice(asciihex, 2, 7))
        cond_num == int16(Slice(asciihex, 7, 12))
        press_num == int16(Slice(asciihex, 16, 18) \o Slice(asciihex, 14, 16))
    IN  [temp_num |-> temp_num, temperature |-> Temperature(temp_num),
         cond_num |-> cond_num, conductivity |-> Conductivity(cond_num),
         press_num |-> press_num, pressure |-> Pressure(press_num)]

\* CtdmoParserDataParticle._build_parsed_values on the bytes of a match
CtdValues(raw) ==
    LET asciihex == b2a_hex(SubSeq(raw, 1, SAMPLE_LEN))
        temp_num == int16(Slice(asciihex, 2, 7))
        cond_num == int16(Slice(asciihex, 7, 12))
        press_num == int16(PressByteSwap(asciihex))
    IN  [temp_num |-> temp_num, temperature |-> Temperature(temp_num),
         cond_num |-> cond_num, conductivity |-> Conductivity(cond_num),
         press_num |-> press_num, pressure |-> Pressure(press_num)]

BuildParsedValues_Whole(raw) ==
    IF DataMatch(raw, 0) /\ Len(raw) = SAMPLE_LEN
    THEN [status |-> "ok", result |-> <<CtdValues(raw)>>]
    ELSE [status |-> "SampleException", result |-> <<>>]

\* CtdmoParserDataParticle._build_parsed_values on any bytes: SampleException
\* unless DATA_MATCHER matches at their head, else the values of the match
BuildParsedValues(raw) ==
    IF DataMatch(raw, 0)
    THEN [status |-> "ok", result |-> <<CtdValues(raw)>>]
    ELSE [status |-> "SampleException", result |-> <<>>]

\* data_match.group(1): the three bytes and the year byte
TimeBytes(group0) == SubSeq(group0, LEAD_BYTES + 1, LEAD_BYTES + TIME_LOW_BYTES + 1)

SecondsSince2000_Forward(group0) == int16(b2a_hex(TimeBytes(group0)))
\* int(timehex_reverse, 16)
SecondsSince2000(group0) ==
    LET asciihextime == b2a_hex(TimeBytes(group0))
        timehex_reverse == Slice(asciihextime, 6, 8) \o Slice(asciihextime, 4, 6)
                           \o Slice(asciihextime, 2, 4) \o Slice(asciihextime, 0, 2)
    IN  int16(timehex_reverse)

EPOCH_YEAR_SECONDS == 31557600
EPOCH_YEARS == 30

ConvertTime_NonLeap(sec_since_2000) == sec_since_2000 + (365 * 86400 * EPOCH_YEARS)

\* _convert_time_to_timestamp: sec_since_1970, which the system clock and
\* ntplib then turn into an NTP time
ConvertTime(sec_since_2000) == sec_since_2000 + (EPOCH_YEAR_SECONDS * EPOCH_YEARS)

\* _extract_sample: the particle of the bytes raw, none when they do not
\* match; offset and chunk_no say where the match was found
ExtractSample(raw, timestamp, offset, chunk_no) ==
    IF DataMatch(raw, 0)
    THEN <<[raw_data |-> raw, timestamp |-> timestamp, values |-> CtdValues(raw),
            offset |-> offset, chunk_no |-> chunk_no]>>
    ELSE <<>>

CtdChunkGiven_Always(c) == TRUE
\* chunk != None
CtdChunkGiven(c) == c # None

\* get_next_data_with_index: the next data chunk, None when there is none
CtdFetch ==
    /\ ctd_chunk' = IF ctd_fetched < Len(ctd_chunks)
                    THEN ctd_chunks[ctd_fetched + 1] ELSE None
    /\ ctd_fetched' = IF ctd_fetched < Len(ctd_chunks)
                      THEN ctd_fetched + 1 ELSE ctd_fetched
    /\ ctd_scan' = 0

CtdBegin ==
    /\ pc = "ctd"
    /\ ctd_particles' = <<>>
    /\ CtdFetch
    /\ pc' = "ctd_loop"
    /\ UNCHANGED <<ctd_chunks, ctd_timestamp>>
    /\ UNCHANGED <<inputVars, sieveVars, parseVars, callVars, peerVars, sessionVars>>

\* one match of DATA_MATCHER.finditer(chunk)
CtdSample ==
    /\ pc = "ctd_loop"
    /\ CtdChunkGiven(ctd_chunk)
    /\ Search(ctd_chunk, ctd_scan) # NoMatch
    /\ LET p == Search(ctd_chunk, ctd_scan)
           group0 == SubSeq(ctd_chunk, p + 1, p + SAMPLE_LEN)
           timestamp == ConvertTime(SecondsSince2000(group0))
       IN  /\ ctd_timestamp' = timestamp
           /\ ctd_particles' =
                 ctd_particles \o ExtractSample(group0, timestamp, p, ctd_fetched)
           /\ ctd_scan' = NextScan(p)
    /\ UNCHANGED <<ctd_chunks, ctd_fetched, ctd_chunk, pc>>
    /\ UNCHANGED <<inputVars, sieveVars, parseVars, callVars, peerVars, sessionVars>>

\* no further match in the chunk: the next chunk is fetched
CtdNextChunk ==
    /\ pc = "ctd_loop"
    /\ CtdChunkGiven(ctd_chunk)
    /\ Search(ctd_chunk, ctd_scan) = NoMatch
    /\ CtdFetch
    /\ UNCHANGED <<ctd_chunks, ctd_timestamp, ctd_particles, pc>>
    /\ UNCHANGED <<inputVars, sieveVars, parseVars, callVars, peerVars, sessionVars>>

CtdReturn ==
    /\ pc = "ctd_loop"
    /\ ~CtdChunkGiven(ctd_chunk)
    /\ pc' = "ctd_done"
    /\ UNCHANGED <<inputVars, sieveVars, parseVars, otherVars>>

ctd_parse_chunks ==
    \/ CtdBegin
    \/ CtdSample
    \/ CtdNextChunk
    \/ CtdReturn

\* A CtdmoParserDataParticle made of the bytes ctd_chunk, whatever they are,
\* builds its values
build_parsed_values ==
    /\ pc = "build"
    /\ pc' = IF BuildParsedValues(ctd_chunk).status = "ok"
             THEN "built" ELSE "sample_exception"
    /\ ctd_particles' =
          [k \in DOMAIN BuildParsedValues(ctd_chunk).result |->
              [raw_data |-> ctd_chunk, timestamp |-> ctd_timestamp,
               values |-> BuildParsedValues(ctd_chunk).result[k],
               offset |-> 0, chunk_no |-> 0]]
    /\ UNCHANGED <<ctd_chunks, ctd_fetched, ctd_chunk, ctd_scan, ctd_timestamp>>
    /\ UNCHANGED <<inputVars, sieveVars, parseVars, callVars, peerVars, sessionVars>>

\* The byte strings that chunks are cut from: two samples, the first eleven
\* bytes of a sample, and single bytes below, in and above the range of the
\* year byte and the delimiter
CtdPieces == {"s1", "s2", "lead", "below", "year", "above", "delimiter"}

PieceBytes(piece) ==
    CASE piece = "s1" -> <<1, 18, 52, 86, 120, 154, 18, 52, 0, 0, 0, 22, 13>>
      [] piece = "s2" -> <<13, 0, 39, 16, 1, 134, 160, 255, 64, 13, 22, 64, 13>>
      [] piece = "lead" -> <<1, 18, 52, 86, 120, 154, 18, 52, 0, 0, 0>>
      [] piece = "below" -> <<21>>
      [] piece = "year" -> <<22>>
      [] piece = "above" -> <<65>>
      [] OTHER -> <<13>>

RECURSIVE BytesOf(_)
BytesOf(pieces) ==
    IF Len(pieces) = 0 THEN <<>>
    ELSE PieceBytes(Head(pieces)) \o BytesOf(Tail(pieces))

PieceSeqs == UNION {[1..n -> CtdPieces] : n \in 0..MaxPieces}

\* The data chunks of the bytes of pieces: none, one, or two cut after piece k
ChunksOf(pieces, k) ==
    IF Len(pieces) = 0 THEN <<>>
    ELSE IF k = 0 \/ k >= Len(pieces) THEN <<BytesOf(pieces)>>
    ELSE <<BytesOf(SubSeq(pieces, 1, k)), BytesOf(SubSeq(pieces, k + 1, Len(pieces)))>>

\* ------------------------------------------------------------ two parsers
\* Two parser objects, each on its own span; one is at work, the other waits
\* where it was, and they change places between any two steps.

\* The state of the parser object at work: the locals of its sieve_function
\* and parse_chunks and what its chunk source holds
Held ==
    [raw_data |-> raw_data, tail |-> tail, data_index |-> data_index,
     return_list |-> return_list, wave_record_inprocess |-> wave_record_inprocess,
     wave_record_start_index |-> wave_record_start_index, anomalies |-> anomalies,
     retval |-> retval, data_chunk_list |-> data_chunk_list,
     nondata_chunk_list |-> nondata_chunk_list, chunk |-> chunk,
     result_particles |-> result_particles, exceptions |-> exceptions, pc |-> pc]

\* A parser object at the entry of sieve_function on the lines of kinds ks
Fresh(ks) ==
    [raw_data |-> Layout(ks), tail |-> 0, data_index |-> 0,
     return_list |-> <<>>, wave_record_inprocess |-> WAVE_RECORD_NOTINPROCESS,
     wave_record_start_index |-> Unbound, anomalies |-> 0,
     retval |-> <<>>, data_chunk_list |-> <<>>,
     nondata_chunk_list |-> <<>>, chunk |-> None,
     result_particles |-> <<>>, exceptions |-> <<>>, pc |-> "sieve"]

BurstStateOf_Shared(held, at_work) == at_work
\* wave_record_inprocess is a local of the call (line 539): the parser that
\* goes on finds the value it left, not that of the parser at work
BurstStateOf(held, at_work) == held.wave_record_inprocess

\* The parser at work waits and the other goes on
Switch ==
    /\ peer # None
    /\ peer' = Held
    /\ running' = 3 - running
    /\ raw_data' = peer.raw_data
    /\ tail' = peer.tail
    /\ data_index' = peer.data_index
    /\ return_list' = peer.return_list
    /\ wave_record_inprocess' = BurstStateOf(peer, wave_record_inprocess)
    /\ wave_record_start_index' = peer.wave_record_start_index
    /\ anomalies' = peer.anomalies
    /\ retval' = peer.retval
    /\ data_chunk_list' = peer.data_chunk_list
    /\ nondata_chunk_list' = peer.nondata_chunk_list
    /\ chunk' = peer.chunk
    /\ result_particles' = peer.result_particles
    /\ exceptions' = peer.exceptions
    /\ pc' = peer.pc
    /\ UNCHANGED <<callVars, sessionVars, ctdVars>>

\* The spans of the second parser: a burst, lines around an open burst, a
\* burst whose end line comes too early
PeerSpans ==
    {<<"wstart", "ptfreq", "cont", "wend">>, <<"meta", "tide", "wstart">>,
     <<"wstart", "ptfreq", "wend">>}

\* ----------------------------------------------------------------- spec

\* No CTD parser at work
CtdIdle ==
    /\ ctd_chunks = <<>>
    /\ ctd_fetched = 0
    /\ ctd_chunk = None
    /\ ctd_scan = 0
    /\ ctd_timestamp = 0
    /\ ctd_particles = <<>>

SpansUpTo(max) == UNION {[1..n -> Kinds] : n \in 0..max}

Spans == SpansUpTo(MaxLines)

\* The entry of sieve_function on one of the given spans, in a parser object
Entry(spans) ==
    /\ \E ks \in spans : raw_data = Layout(ks)
    /\ tail \in TailLens
    /\ data_index = 0
    /\ return_list = <<>>
    /\ wave_record_inprocess = WAVE_RECORD_NOTINPROCESS
    /\ wave_record_start_index = Unbound
    /\ anomalies = 0
    /\ retval = <<>>
    /\ data_chunk_list = <<>>
    /\ nondata_chunk_list = <<>>
    /\ chunk = None
    /\ result_particles = <<>>
    /\ exceptions = <<>>
    /\ pc = "sieve"
    /\ calls = 1
    /\ first = None
    /\ file = <<>>
    /\ file_tail = 0
    /\ position = 0
    /\ origin = <<>>
    /\ record_buffer = <<>>
    /\ want = 0
    /\ emitted = <<>>
    /\ ends = {}
    /\ resumed = None
    /\ state_obj = None
    /\ state_error = FALSE
    /\ CtdIdle

\* The entry of sieve_function on one of the given spans, no other parser
\* object being there
Start(spans) ==
    /\ Entry(spans)
    /\ peer = None
    /\ running = 1

Init == Start(Spans)

Next == sieve_function \/ MakeChunks \/ parse_chunks

Spec == Init /\ [][Next]_vars

SessionInit ==
    /\ file \in Files
    /\ file_tail \in TailLens
    /\ raw_data = <<>>
    /\ tail = 0
    /\ data_index = 0
    /\ return_list = <<>>
    /\ wave_record_inprocess = WAVE_RECORD_NOTINPROCESS
    /\ wave_record_start_index = Unbound
    /\ anomalies = 0
    /\ retval = <<>>
    /\ data_chunk_list = <<>>
    /\ nondata_chunk_list = <<>>
    /\ chunk = None
    /\ result_particles = <<>>
    /\ exceptions = <<>>
    /\ pc = "idle"
    /\ calls = 1
    /\ first = None
    /\ position = 0
    /\ origin = <<>>
    /\ record_buffer = <<>>
    /\ want = 0
    /\ emitted = <<>>
    /\ ends = {}
    /\ resumed = None
    /\ state_obj = None
    /\ state_error = FALSE
    /\ peer = None
    /\ running = 1
    /\ CtdIdle

SessionNext ==
    \/ GetRecords
    \/ sieve_function
    \/ MakeChunks
    \/ parse_chunks
    \/ Collect
    \/ Failed
    \/ set_state

\* One parser object: get_records and set_state in any order
Session == SessionInit /\ [][SessionNext]_vars

\* The entry of CtdmoParser.parse_chunks, the chunk source holding some chunks
CtdInit ==
    /\ \E pieces \in PieceSeqs : \E k \in 0..MaxPieces :
          /\ k <= Len(pieces)
          /\ ctd_chunks = ChunksOf(pieces, k)
    /\ ctd_fetched = 0
    /\ ctd_chunk = None
    /\ ctd_scan = 0
    /\ ctd_timestamp = 0
    /\ ctd_particles = <<>>
    /\ pc = "ctd"
    /\ raw_data = <<>>
    /\ tail = 0
    /\ data_index = 0
    /\ return_list = <<>>
    /\ wave_record_inprocess = WAVE_RECORD_NOTINPROCESS
    /\ wave_record_start_index = Unbound
    /\ anomalies = 0
    /\ retval = <<>>
    /\ data_chunk_list = <<>>
    /\ nondata_chunk_list = <<>>
    /\ chunk = None
    /\ result_particles = <<>>
    /\ exceptions = <<>>
    /\ calls = 1
    /\ first = None
    /\ file = <<>>
    /\ file_tail = 0
    /\ position = 0
    /\ origin = <<>>
    /\ record_buffer = <<>>
    /\ want = 0
    /\ emitted = <<>>
    /\ ends = {}
    /\ resumed = None
    /\ state_obj = None
    /\ state_error = FALSE
    /\ peer = None
    /\ running = 1

\* CtdmoParser.parse_chunks
Ctd == CtdInit /\ [][ctd_parse_chunks]_vars

\* A particle of the CTD class made of some bytes, its values not yet built
DecodeInit ==
    /\ \E pieces \in PieceSeqs : ctd_chunk = BytesOf(pieces)
    /\ ctd_chunks = <<>>
    /\ ctd_fetched = 0
    /\ ctd_scan = 0
    /\ ctd_timestamp = 0
    /\ ctd_particles = <<>>
    /\ pc = "build"
    /\ raw_data = <<>>
    /\ tail = 0
    /\ data_index = 0
    /\ return_list = <<>>
    /\ wave_record_inprocess = WAVE_RECORD_NOTINPROCESS
    /\ wave_record_start_index = Unbound
    /\ anomalies = 0
    /\ retval = <<>>
    /\ data_chunk_list = <<>>
    /\ nondata_chunk_list = <<>>
    /\ chunk = None
    /\ result_particles = <<>>
    /\ exceptions = <<>>
    /\ calls = 1
    /\ first = None
    /\ file = <<>>
    /\ file_tail = 0
    /\ position = 0
    /\ origin = <<>>
    /\ record_buffer = <<>>
    /\ want = 0
    /\ emitted = <<>>
    /\ ends = {}
    /\ resumed = None
    /\ state_obj = None
    /\ state_error = FALSE
    /\ peer = None
    /\ running = 1

\* CtdmoParser.parse_chunks on some chunks, or the decoder on some bytes
CtdDecode ==
    (CtdInit \/ DecodeInit) /\ [][ctd_parse_chunks \/ build_parsed_values]_vars

\* Either parser at parse_chunks, after the sieve in the wave/tide parser
Parsers ==
    (Start(SpansUpTo(MaxLinesShort)) \/ CtdInit) /\ [][Next \/ ctd_parse_chunks]_vars

\* One call of sieve_function; the loop takes its next step whenever it has one
SieveFair ==
    /\ Start(SpansUpTo(MaxLinesShort))
    /\ [][sieve_function]_vars
    /\ WF_vars(sieve_function)

\* Two parser objects at the entry of sieve_function
PairInit ==
    /\ Entry(SpansUpTo(MaxLinesPair))
    /\ \E ks \in PeerSpans : peer = Fresh(ks)
    /\ running = 1

\* sieve_function and parse_chunks of two parser objects, their steps
\* interleaved in any order
Pair == PairInit /\ [][Next \/ Switch]_vars

\* sieve_function called twice on one span
SieveTwice == Start(SpansUpTo(MaxLinesShort)) /\ [][sieve_function \/ SieveCall]_vars

\* ------------------------------------------------------------ properties

RangeOf(seq) == {seq[k] : k \in DOMAIN seq}

\* Lines i .. i+n+2 are start, ptfreq, n continuation lines, end
BurstAt(i, n) ==
    /\ n >= 1
    /\ i >= 1
    /\ i + n + 2 <= Len(raw_data)
    /\ raw_data[i].kind = "wstart"
    /\ raw_data[i + 1].kind = "ptfreq"
    /\ \A j \in 1..n : raw_data[i + 1 + j].kind = "cont"
    /\ raw_data[i + n + 2].kind = "wend"

Bursts == {b \in (1..Len(raw_data)) \X (1..Len(raw_data)) : BurstAt(b[1], b[2])}

\* The kind of the complete line that starts at the scan offset
KindHere ==
    IF data_index < CompleteLen THEN RestOfLine(data_index).kind ELSE "none"

Open == {WAVE_RECORD_STARTED, WAVE_RECORD_PTFREQ, WAVE_RECORD_CONT}

\* C1: once the scan has passed the lines start, ptfreq, continuation x N
\* (N >= 1), end, the list of ranges holds exactly one range that begins
\* inside the burst, and it runs from the first byte of the start line to the
\* byte after the newline of the end line; that list is what is returned.
C1_OneRangePerBurst ==
    /\ \A b \in Bursts :
          data_index >= Offset(b[1] + b[2] + 3) =>
             /\ <<Offset(b[1]), Offset(b[1] + b[2] + 3)>> \in RangeOf(return_list)
             /\ Cardinality({k \in DOMAIN return_list :
                               /\ return_list[k][1] >= Offset(b[1])
                               /\ return_list[k][1] < Offset(b[1] + b[2] + 3)}) = 1
    /\ pc \notin {"sieve", "raised"} => retval = return_list

C1_Witness ==
    /\ pc = "returned"
    /\ \E i \in 1..Len(raw_data) :
          /\ BurstAt(i, 2)
          /\ <<Offset(i), Offset(i + 5)>> \in RangeOf(retval)

EndAfterPtfreqStep ==
    (Step = "wend" /\ wave_record_inprocess = WAVE_RECORD_PTFREQ) =>
       /\ pc' = "raised"
       /\ anomalies' = anomalies + 1
       /\ return_list' = return_list
       /\ retval' = <<>>

\* C2: an end line met right after the ptfreq line (no continuation line)
\* makes the sieve raise once and return nothing; no range is added.
C2_EndAfterPtfreqRejected ==
    [][EndAfterPtfreqStep]_vars

C2_Witness ==
    /\ pc = "raised"
    /\ KindHere = "wend"
    /\ wave_record_inprocess = WAVE_RECORD_PTFREQ

SecondStartStep ==
    /\ pc # "raised"
    /\ (Step = "wstart" /\ wave_record_inprocess \in Open) =>
          /\ pc' = "raised"
          /\ anomalies = 0
          /\ anomalies' = 1
          /\ retval' = <<>>
          /\ \A k \in DOMAIN return_list' :
                return_list'[k][1] # wave_record_start_index

\* C3: a start line met while a burst is open (Started, HasPtfreq or
\* Accumulating) ends the call with exactly one anomaly; nothing is returned,
\* no range of the list begins at the open burst's start line, and no step
\* follows the raise.
C3_SecondStartAborts ==
    [][SecondStartStep]_vars

C3_Witness ==
    /\ pc = "raised"
    /\ KindHere = "wstart"
    /\ wave_record_inprocess = WAVE_RECORD_CONT
    /\ anomalies = 1

Accepted ==
    {<<WAVE_RECORD_NOTINPROCESS, "wstart">>, <<WAVE_RECORD_STARTED, "ptfreq">>,
     <<WAVE_RECORD_PTFREQ, "cont">>, <<WAVE_RECORD_CONT, "cont">>,
     <<WAVE_RECORD_CONT, "wend">>}

Target(kind) ==
    CASE kind = "wstart" -> WAVE_RECORD_STARTED
      [] kind = "ptfreq" -> WAVE_RECORD_PTFREQ
      [] kind = "cont" -> WAVE_RECORD_CONT
      [] kind = "wend" -> WAVE_RECORD_NOTINPROCESS

WaveLineStep ==
    Step \in {"wstart", "ptfreq", "cont", "wend"} =>
       IF <<wave_record_inprocess, Step>> \in Accepted
       THEN /\ pc' = "sieve"
            /\ wave_record_inprocess' = Target(Step)
            /\ anomalies' = anomalies
            /\ Len(return_list') = Len(return_list) + (IF Step = "wend" THEN 1 ELSE 0)
       ELSE /\ pc' = "raised"
            /\ anomalies' = anomalies + 1
            /\ return_list' = return_list
            /\ retval' = <<>>

\* C4: a wave line is accepted exactly on the transitions Idle-start->Started,
\* Started-ptfreq->HasPtfreq, HasPtfreq-continuation->Accumulating,
\* Accumulating-continuation->Accumulating, Accumulating-end->Idle (only the
\* last adds a range); on every other pair of state and wave line the sieve
\* raises and returns no range.
C4_ExactTransitions ==
    [][WaveLineStep]_vars

C4_Witness ==
    /\ pc = "raised"
    /\ KindHere = "cont"
    /\ wave_record_inprocess = WAVE_RECORD_STARTED

\* C5 (as claimed): when the sieve has met a malformed line, every tide line
\* of the span still has its range in what the sieve gives its caller.
C5_TideSurvivesMalformedLine ==
    pc = "raised" =>
       \A i \in 1..Len(raw_data) :
          raw_data[i].kind = "tide" =>
             <<Offset(i), Offset(i + 1)>> \in RangeOf(retval)

\* C6 (as claimed): the ranges returned by one call have start < end <=
\* len(span), and each begins at or after the end of the one before it.
C6_RangesIncreasing ==
    pc = "returned" =>
       /\ \A k \in DOMAIN retval :
             retval[k][1] < retval[k][2] /\ retval[k][2] <= raw_data_len
       /\ \A j, k \in DOMAIN retval :
             j < k => retval[j][1] < retval[k][1] /\ retval[j][2] <= retval[k][1]

\* C7: the bytes of an incomplete last line are never consumed: no range ends
\* after the last newline, the scan offset never passes it, and the sieve
\* raises only at a complete line.
C7_PartialLineLeftAlone ==
    /\ \A k \in DOMAIN return_list : return_list[k][2] <= CompleteLen
    /\ \A k \in DOMAIN retval : retval[k][2] <= CompleteLen
    /\ data_index <= CompleteLen
    /\ pc = "raised" => data_index < CompleteLen

C7_Witness ==
    /\ pc = "returned"
    /\ tail > 0
    /\ data_index = CompleteLen
    /\ anomalies = 0
    /\ Len(retval) >= 1

\* C8 (as claimed): when the span ends while a burst is open, the burst has no
\* range and the caller is told: the sieve raised, or the bytes of the burst's
\* start line are in a span handed to the exception callback.
C8_OpenBurstReported ==
    (pc = "done" /\ wave_record_inprocess \in Open) =>
       /\ \A k \in DOMAIN retval : retval[k][1] # wave_record_start_index
       /\ \/ anomalies > 0
          \/ \E k \in DOMAIN exceptions :
                /\ exceptions[k][1] <= wave_record_start_index
                /\ wave_record_start_index < exceptions[k][2]

AllMeta == \A i \in 1..Len(raw_data) : raw_data[i].kind = "meta"

Gaps == RangeOf(GapsBefore(retval, 0) \o GapAfter(retval))

HoldsMeta(g) ==
    \E i \in 1..Len(raw_data) :
       raw_data[i].kind = "meta" /\ g[1] <= Offset(i) /\ Offset(i) < g[2]

\* C10 (as claimed): when parse_chunks has returned, every span of complete
\* lines that lies in no range and holds no metadata line was handed to the
\* exception callback exactly once.
C10_NonDataReportedOnce ==
    pc = "done" =>
       \A g \in Gaps :
          (g[2] <= CompleteLen /\ ~HoldsMeta(g)) =>
             Cardinality({k \in DOMAIN exceptions : exceptions[k] = g}) = 1

\* C15: a second call of sieve_function on the same span ends as the first
\* did, with the same ranges returned or with a raise where the first raised,
\* and every call begins its scan in the state NOTINPROCESS.
C15_SieveIdempotent ==
    /\ (calls = 2 /\ pc \in {"returned", "raised"}) =>
          /\ pc = first.pc
          /\ retval = first.retval
    /\ (pc = "sieve" /\ data_index = 0) =>
          wave_record_inprocess = WAVE_RECORD_NOTINPROCESS

C15_Witness ==
    /\ calls = 2
    /\ pc = "returned"
    /\ Len(retval) >= 1
    /\ wave_record_inprocess \in Open

\* C11: once set_state has resumed the session at the offset just after a
\* particle handed out before, every particle that get_records hands out,
\* that waits in _record_buffer or that parse_chunks returns begins at or
\* after that offset, whatever the chunk source held at the resume.
C11_NoReplayBeforeResume ==
    (resumed # None /\ resumed.after_record) =>
       /\ \A k \in DOMAIN emitted : emitted[k].start >= resumed.at
       /\ \A k \in DOMAIN record_buffer : record_buffer[k].start >= resumed.at
       /\ pc = "done" =>
             \A k \in DOMAIN result_particles :
                Placed(result_particles[k]).start >= resumed.at

C11_Witness ==
    /\ resumed # None
    /\ resumed.after_record
    /\ resumed.at > 0
    /\ resumed.at < FileLen
    /\ Len(emitted) >= 1

\* C12 (as claimed): no step of a session moves the stream position, the
\* offset input_file reads from next, backwards.
C12_PositionNeverDecreases ==
    [][position' >= position]_vars

BadState(s) == s # None /\ (~s.dict \/ "position" \notin s.keys)

RejectedStateStep ==
    (state_obj' # state_obj /\ BadState(state_obj')) =>
       /\ state_error'
       /\ record_buffer' = record_buffer
       /\ position' = position
       /\ raw_data' = raw_data
       /\ emitted' = emitted
       /\ pc' = pc

C14_ExhaustedSourceClean ==
    /\ (pc = "loop" /\ retval = <<>>) =>
          (chunk = None /\ result_particles = <<>> /\ ENABLED ParseReturn)
    /\ (pc = "done" /\ retval = <<>>) => result_particles = <<>>
    /\ (pc = "ctd_loop" /\ ctd_chunks = <<>>) =>
          (ctd_chunk = None /\ ctd_particles = <<>> /\ ENABLED CtdReturn)
    /\ (pc = "ctd_done" /\ ctd_chunks = <<>>) => ctd_particles = <<>>

C14_Witness ==
    /\ pc = "ctd_done"
    /\ ctd_chunks = <<>>
    /\ ctd_fetched = 0
    /\ ctd_particles = <<>>

\* 13 bytes of c from offset q on: 11 bytes, a byte in 0x16..0x40, 0x0D
IsSample(c, q) ==
    /\ q >= 0
    /\ q + 13 <= Len(c)
    /\ c[q + 12] >= 22
    /\ c[q + 12] <= 64
    /\ c[q + 13] = 13

\* The offsets of the samples found in chunk number n
FoundIn(n) ==
    {ctd_particles[k].offset : k \in {j \in DOMAIN ctd_particles :
                                         ctd_particles[j].chunk_no = n}}

\* C16: every sample found is 13 bytes of its chunk that match the pattern
\* and end with 0x0D; samples come in the order of chunks and offsets and do
\* not overlap; when parse_chunks has returned, every place of a chunk where
\* the pattern matches is a sample found or lies inside one that begins
\* before it.
C16_LeftmostNonOverlapping ==
    /\ \A k \in DOMAIN ctd_particles :
          LET pt == ctd_particles[k]
          IN  /\ Len(pt.raw_data) = 13
              /\ pt.raw_data[13] = 13
              /\ pt.chunk_no \in 1..Len(ctd_chunks)
              /\ IsSample(ctd_chunks[pt.chunk_no], pt.offset)
              /\ pt.raw_data = SubSeq(ctd_chunks[pt.chunk_no], pt.offset + 1,
                                      pt.offset + 13)
    /\ \A j, k \in DOMAIN ctd_particles :
          j < k =>
             \/ ctd_particles[j].chunk_no < ctd_particles[k].chunk_no
             \/ /\ ctd_particles[j].chunk_no = ctd_particles[k].chunk_no
                /\ ctd_particles[j].offset + 13 <= ctd_particles[k].offset
    /\ pc = "ctd_done" =>
          \A n \in 1..Len(ctd_chunks) :
             \A q \in 0..Len(ctd_chunks[n]) :
                IsSample(ctd_chunks[n], q) =>
                   \/ q \in FoundIn(n)
                   \/ \E f \in FoundIn(n) : f < q /\ q < f + 13

C16_Witness ==
    /\ pc = "ctd_done"
    /\ Len(ctd_particles) = 2
    /\ ctd_particles[1].offset > 0
    /\ \E q \in 0..Len(ctd_chunks[1]) :
          IsSample(ctd_chunks[1], q) /\ q \notin FoundIn(1)

\* C17: the raw pressure of a sample is byte 7 * 256 + byte 6 of its record
\* (bytes counted from 0): the bytes 0x12, 0x34 give 0x3412.
C17_PressureBytesSwapped ==
    \A k \in DOMAIN ctd_particles :
       LET pt == ctd_particles[k]
       IN  pt.values.press_num = pt.raw_data[8] * 256 + pt.raw_data[7]

C17_Witness ==
    \E k \in DOMAIN ctd_particles :
       /\ ctd_particles[k].raw_data[7] = 18
       /\ ctd_particles[k].raw_data[8] = 52
       /\ ctd_particles[k].values.press_num = 13330

\* C18 (as claimed): the temperature of a sample is exactly raw / 10000 - 10
\* and its conductivity exactly raw / 100000 - 0.5, raw being the value of
\* the five hex digits.
C18_ExactScaling ==
    \A k \in DOMAIN ctd_particles :
       LET v == ctd_particles[k].values
       IN  /\ v.temp_num \in 0..1048575
           /\ v.cond_num \in 0..1048575
           /\ v.temperature.num * 10000 = (v.temp_num - 100000) * v.temperature.den
           /\ v.conductivity.num * 100000 = (v.cond_num - 50000) * v.conductivity.den

C20_WaveformInArrivalOrder ==
    \A k \in DOMAIN result_particles :
       \A b \in Bursts :
          LET pt == result_particles[k]
              i == b[1]
              n == b[2]
          IN  (pt.type = "wave" /\ pt.start = Offset(i) /\ pt.end = Offset(i + n + 3)) =>
                 /\ pt.values.status = "ok"
                 /\ Len(pt.values.absolute_pressure_burst) = n
                 /\ \A j \in 1..n :
                       pt.values.absolute_pressure_burst[j] =
                          [line |-> Offset(i + 1 + j), group |-> "absolute_pressure"]
                 /\ pt.values.ptemp_frequency =
                       [line |-> Offset(i + 1), group |-> "ptemp_frequency"]
                 /\ pt.values.dcl_controller_start_timestamp =
                       [line |-> Offset(i), group |-> "dcl_timestamp"]
                 /\ pt.values.date_time_string =
                       [line |-> Offset(i), group |-> "date_time_string"]
                 /\ pt.values.dcl_controller_end_timestamp =
                       [line |-> Offset(i + n + 2), group |-> "dcl_timestamp"]

C20_Witness ==
    /\ pc = "done"
    /\ BurstAt(1, 2)
    /\ Len(result_particles) = 1
    /\ result_particles[1].type = "wave"
    /\ Len(result_particles[1].values.absolute_pressure_burst) = 2

\* The six grammars, in the order the sieve tries them
Grammars == <<"meta", "tide", "wstart", "ptfreq", "cont", "wend">>

\* The grammars a line passes
Hits(line) == {k \in DOMAIN Grammars : line.kind = Grammars[k]}

\* The first grammar a line passes, in the order of precedence
FirstPassed(line) ==
    IF Hits(line) = {} THEN "unmatched"
    ELSE Grammars[CHOOSE k \in Hits(line) : \A j \in Hits(line) : k <= j]

\* The branches of the loop body that can run on the line at the scan offset
OpenBranches ==
    {b \in {"meta", "tide", "wstart", "ptfreq", "cont", "wend", "unmatched"} :
        CASE b = "meta" -> ENABLED SieveMeta
          [] b = "tide" -> ENABLED SieveTide
          [] b = "wstart" -> ENABLED SieveWstart
          [] b = "ptfreq" -> ENABLED SieveWptfreq
          [] b = "cont" -> ENABLED SieveWcont
          [] b = "wend" -> ENABLED SieveWend
          [] OTHER -> ENABLED SieveUnmatched}

ClassifiedOnce ==
    (pc = "sieve" /\ data_index < CompleteLen) =>
       /\ Cardinality(Hits(RestOfLine(data_index))) <= 1
       /\ OpenBranches = {FirstPassed(RestOfLine(data_index))}

UnmatchedLineStep ==
    (pc = "sieve" /\ data_index < CompleteLen /\ KindHere = "junk") =>
       /\ pc' = "raised"
       /\ anomalies' = anomalies + 1
       /\ return_list' = return_list
       /\ retval' = <<>>
       /\ result_particles' = <<>>

\* C21: a complete line that passes none of the six grammars makes the sieve
\* raise once, in every burst state, and no range is added or returned; each
\* complete line passes at most one grammar and takes exactly one branch of
\* the loop body, that of the first grammar it passes in the order metadata,
\* tide, start, ptfreq, continuation, end.
C21_UnmatchedLineAnomaly ==
    []ClassifiedOnce /\ [][UnmatchedLineStep]_vars

C21_Witness ==
    /\ pc = "raised"
    /\ KindHere = "junk"
    /\ wave_record_inprocess = WAVE_RECORD_CONT
    /\ Len(return_list) >= 1
    /\ anomalies = 1

RECURSIVE SamplesFrom(_, _)
\* How many samples a scan of c from offset q on meets, going on after each
SamplesFrom(c, q) ==
    IF q + 13 > Len(c) THEN 0
    ELSE IF IsSample(c, q) THEN 1 + SamplesFrom(c, q + 13)
    ELSE SamplesFrom(c, q + 1)

RECURSIVE SamplesOf(_)
SamplesOf(chunks) ==
    IF Len(chunks) = 0 THEN 0
    ELSE SamplesFrom(Head(chunks), 0) + SamplesOf(Tail(chunks))

C23_TideLineDecoded ==
    /\ \A k \in DOMAIN result_particles :
          LET pt == result_particles[k]
              v == pt.values.result
          IN  pt.type = "tide" =>
                 /\ FirstLine(pt.start).kind = "tide"
                 /\ pt.end = pt.start + FirstLine(pt.start).len
                 /\ Len(v) = 5
                 /\ [j \in 1..5 |-> v[j].value_id] =
                       <<"dcl_controller_timestamp", "date_time_string",
                         "absolute_pressure", "pressure_temperature",
                         "seawater_temperature">>
                 /\ [j \in 1..5 |-> v[j].from] =
                       <<[line |-> pt.start, group |-> "dcl_timestamp"],
                         [line |-> pt.start, group |-> "date_time_string"],
                         [line |-> pt.start, group |-> "absolute_pressure"],
                         [line |-> pt.start, group |-> "pressure_temperature"],
                         [line |-> pt.start, group |-> "seawater_temperature"]>>
                 /\ v[3].value.num * 10000 = 146612 * v[3].value.den
                 /\ v[4].value.num * 1000 = 11380 * v[4].value.den
                 /\ v[5].value.num * 10000 = 115248 * v[5].value.den
    /\ pc = "done" =>
          \A i \in 1..Len(raw_data) :
             raw_data[i].kind = "tide" =>
                /\ Cardinality({k \in DOMAIN result_particles :
                                  result_particles[k].start = Offset(i)}) = 1
                /\ \A k \in DOMAIN result_particles :
                      result_particles[k].start = Offset(i) =>
                         result_particles[k].type = "tide"

C23_Witness ==
    /\ pc = "done"
    /\ Len(raw_data) >= 2
    /\ raw_data[2].kind = "tide"
    /\ \E k \in DOMAIN result_particles :
          /\ result_particles[k].type = "tide"
          /\ result_particles[k].start = Offset(2)
          /\ result_particles[k].values.result[3].value = [num |-> 146612, den |-> 10000]

RECURSIVE SieveAlone(_, _, _, _, _)
\* How a call of sieve_function on the given lines ends when nothing else
\* runs: from line i on, in burst state s, the open burst begun at offset
\* start, the ranges found so far
SieveAlone(lines, i, s, start, ranges) ==
    IF i > Len(lines) THEN [pc |-> "returned", retval |-> ranges]
    ELSE LET l == lines[i]
         IN  IF l.kind = "meta" THEN SieveAlone(lines, i + 1, s, start, ranges)
             ELSE IF l.kind = "tide"
             THEN SieveAlone(lines, i + 1, s, start,
                             Append(ranges, <<l.start, l.start + l.len>>))
             ELSE IF l.kind = "junk" \/ <<s, l.kind>> \notin Accepted
             THEN [pc |-> "raised", retval |-> <<>>]
             ELSE IF l.kind = "wstart"
             THEN SieveAlone(lines, i + 1, Target(l.kind), l.start, ranges)
             ELSE IF l.kind = "wend"
             THEN SieveAlone(lines, i + 1, Target(l.kind), start,
                             Append(ranges, <<start, l.start + l.len>>))
             ELSE SieveAlone(lines, i + 1, Target(l.kind), start, ranges)

RECURSIVE ReportsAlone(_, _)
\* The spans parse_chunks hands to the exception callback when nothing else
\* runs, the chunk source holding the data chunks dl and the non-data chunks nd
ReportsAlone(dl, nd) ==
    LET here == IF HandleNonData(NextNonData(nd), NextData(dl))
                THEN <<NextNonData(nd)>> ELSE <<>>
    IN  IF NextData(dl) = None THEN here
        ELSE here \o ReportsAlone(Rest(dl), Cleaned(Rest(nd), NextData(dl)))

\* What the parser at work has come to is what it comes to on its span alone
AsAlone ==
    LET alone == SieveAlone(raw_data, 1, WAVE_RECORD_NOTINPROCESS, Unbound, <<>>)
    IN  /\ pc = "raised" =>
              (alone.pc = "raised" /\ anomalies = 1 /\ retval = <<>>)
        /\ pc \in {"returned", "parse", "loop", "done", "hang"} =>
              (alone.pc = "returned" /\ anomalies = 0 /\ retval = alone.retval)
        /\ pc = "done" =>
              /\ result_particles =
                    [k \in DOMAIN retval |->
                        Particle(IF FirstLine(retval[k][1]).kind = "tide"
                                 THEN "tide" ELSE "wave", retval[k])]
              /\ exceptions = ReportsAlone(retval, GapsBefore(retval, 0))

\* A step of the parser at work leaves the one that waits as it is; when they
\* change places each goes on from the state it was left in
PeerStep ==
    IF running' = running THEN peer' = peer
    ELSE peer' = Held /\ Held' = peer

\* C24: two parser objects whose sieve_function and parse_chunks steps are
\* interleaved in any order each come to the ranges, the particles and the
\* anomalies they come to alone, and no step of one changes the state of the
\* other.
C24_SessionsIndependent ==
    []AsAlone /\ [][PeerStep]_vars

C24_Witness ==
    /\ running = 2
    /\ pc = "done"
    /\ Len(result_particles) = 1
    /\ result_particles[1].type = "wave"
    /\ peer # None
    /\ peer.pc = "done"
    /\ Len(peer.result_particles) >= 1
    /\ Len(peer.exceptions) >= 1

\* The three values of a sample
Triple(v) == <<v.temperature, v.conductivity, v.pressure>>

\* Values to put in the place of a byte of a record
ProbeBytes == {0, 255}

\* C25: the temperature, conductivity and pressure of the sample just decoded
\* are those its 13 bytes decode to, whatever was decoded before, and putting
\* another value in the place of byte 0 or of one of the bytes 8 to 12
\* leaves them as they are; two samples with the same bytes 1 to 7 have the
\* same three values.
C25_DecodePure ==
    /\ Len(ctd_particles) > 0 =>
          LET pt == ctd_particles[Len(ctd_particles)]
          IN  /\ pt.values = CtdValues(pt.raw_data)
              /\ \A i \in {1, 9, 10, 11, 12, 13} : \A b \in ProbeBytes :
                    Triple(CtdValues([pt.raw_data EXCEPT ![i] = b])) = Triple(pt.values)
    /\ \A j, k \in DOMAIN ctd_particles :
          SubSeq(ctd_particles[j].raw_data, 2, 8) =
             SubSeq(ctd_particles[k].raw_data, 2, 8) =>
                Triple(ctd_particles[j].values) = Triple(ctd_particles[k].values)

C25_Witness ==
    /\ pc = "ctd_done"
    /\ Len(ctd_particles) = 3
    /\ ctd_particles[1].raw_data = ctd_particles[3].raw_data
    /\ ctd_particles[1].raw_data # ctd_particles[2].raw_data
    /\ Triple(ctd_particles[1].values) = Triple(ctd_particles[3].values)
    /\ Triple(ctd_particles[1].values) # Triple(ctd_particles[2].values)

\* The particles are those of the ranges returned, one for each, in order
OnePerRange ==
    /\ Len(result_particles) = Len(retval)
    /\ \A k \in DOMAIN result_particles :
          /\ result_particles[k].start = retval[k][1]
          /\ result_particles[k].end = retval[k][2]
          /\ result_particles[k].type =
                IF FirstLine(retval[k][1]).kind = "tide" THEN "tide" ELSE "wave"
          /\ result_particles[k].values.status = "ok"

\* C26 (as claimed): once parse_chunks has returned, or has come to the range
\* it never gets past, it has built exactly one particle for each range the
\* sieve returned, in the order of the ranges: a tide particle for a range
\* that begins with a tide line, a wave particle for one that begins with a
\* start line.
C26_OneRecordPerRange ==
    pc \in {"done", "hang"} => OnePerRange

\* C27 (as claimed): the wave decoder comes to an end on every range that
\* sieve_function returns for a burst, a range with a metadata line or a tide
\* line between the start line and the end line included.
C27_WaveDecoderTerminates ==
    pc = "returned" =>
       \A k \in DOMAIN retval :
          FirstLine(retval[k][1]).kind = "wstart" =>
             WaveValues(retval[k]).status # "hang"

MetaTideStep ==
    (pc = "sieve" /\ data_index < CompleteLen /\ KindHere \in {"meta", "tide"}) =>
       /\ pc' = "sieve"
       /\ anomalies' = anomalies
       /\ wave_record_inprocess' = wave_record_inprocess
       /\ wave_record_start_index' = wave_record_start_index
       /\ data_index' = data_index + RestOfLine(data_index).len
       /\ return_list' =
             IF KindHere = "tide"
             THEN Append(return_list,
                         <<data_index, data_index + RestOfLine(data_index).len>>)
             ELSE return_list

\* C28: in every burst state a step of the sieve on a metadata line or on a
\* tide line leaves the burst state and the offset of the open burst as they
\* are and does not raise; the metadata line is passed over, the tide line
\* gets a range of its own.
C28_MetaTideKeepBurstState ==
    [][MetaTideStep]_vars

C28_Witness ==
    /\ pc = "sieve"
    /\ wave_record_inprocess = WAVE_RECORD_CONT
    /\ Len(return_list) >= 1
    /\ return_list[Len(return_list)][1] > wave_record_start_index
    /\ return_list[Len(return_list)][2] = data_index
    /\ FirstLine(return_list[Len(return_list)][1]).kind = "tide"
    /\ \E i \in 1..Len(raw_data) :
          raw_data[i].kind = "meta" /\ raw_data[i].start > wave_record_start_index

\* A step of parse_chunks that fetches a non-data chunk and a data chunk
FetchStep ==
    \/ pc = "parse" /\ pc' = "loop"
    \/ pc = "loop" /\ pc' = "loop" /\ result_particles' # result_particles

\* The non-data chunk at hand lies before the data chunk fetched with it and
\* does not begin with a metadata line
Reportable(nd_list, c) ==
    IF Len(nd_list) = 0 \/ c = None THEN FALSE
    ELSE nd_list[1][2] <= c[1] /\ FirstLine(nd_list[1][1]).kind # "meta"

HandleNonDataStep ==
    IF FetchStep
    THEN exceptions' = IF Reportable(nondata_chunk_list, chunk')
                       THEN Append(exceptions, nondata_chunk_list[1])
                       ELSE exceptions
    ELSE exceptions' = exceptions

\* C29: at every fetch of parse_chunks the non-data span is handed to the
\* exception callback, once, if and only if there is one, it ends at or
\* before the start of the data chunk fetched with it, and it does not begin
\* with a metadata line; no other step calls the callback.  A span that
\* begins with a metadata line is left out whatever follows that line in it.
C29_NonDataReportRule ==
    [][HandleNonDataStep]_vars

C29_Witness ==
    /\ pc = "done"
    /\ Len(exceptions) = 1
    /\ \E k \in DOMAIN GapsBefore(retval, 0) :
          LET g == GapsBefore(retval, 0)[k]
          IN  /\ FirstLine(g[1]).kind = "meta"
              /\ g[2] > g[1] + FirstLine(g[1]).len
              /\ FirstLine(g[1] + FirstLine(g[1]).len).kind # "meta"
              /\ g \notin RangeOf(exceptions)

\* A turn of the loop passes over one whole line, or ends the call
ProgressStep ==
    pc = "sieve" =>
       \/ pc' \in {"returned", "raised"}
       \/ /\ pc' = "sieve"
          /\ data_index < CompleteLen
          /\ RestOfLine(data_index).len >= 1
          /\ data_index' = data_index + RestOfLine(data_index).len
          /\ data_index' <= CompleteLen

\* C30: every call of sieve_function ends, by a return or by a raise: each
\* turn of its loop moves the scan offset past one whole line (at least one
\* byte, never past the last newline), raises, or stops at an incomplete
\* last line or at the end of the span.
C30_SieveTerminates ==
    <>(pc \in {"returned", "raised"}) /\ [][ProgressStep]_vars

C30_Witness ==
    /\ pc = "returned"
    /\ Len(raw_data) = 4
    /\ data_index = CompleteLen
    /\ tail > 0
    /\ Len(retval) = 1
    /\ \E i \in 1..Len(raw_data) : raw_data[i].kind = "meta"

\* The seconds that bytes 8 to 11 of a record spell, byte 8 the lowest
\* (bytes counted from 0)
OwnSeconds(raw) ==
    raw[9] + 256 * raw[10] + 65536 * raw[11] + 16777216 * raw[12]

\* C31: the timestamp of every sample is the conversion of the seconds in
\* bytes 8 to 11 of its own record read lowest byte first (byte8 + 256 *
\* byte9 + 65536 * byte10 + 16777216 * byte11), whatever the time fields of
\* the samples found before and after it; the parser's own timestamp is the
\* one of the sample found last.
C31_TimestampFromOwnBytes ==
    /\ \A k \in DOMAIN ctd_particles :
          ctd_particles[k].timestamp = ConvertTime(OwnSeconds(ctd_particles[k].raw_data))
    /\ pc \in {"ctd_loop", "ctd_done"} /\ Len(ctd_particles) > 0 =>
          ctd_timestamp =
             ConvertTime(OwnSeconds(ctd_particles[Len(ctd_particles)].raw_data))

\* Two samples of one span whose time fields differ, each with its own time
C31_Witness ==
    /\ pc = "ctd_done"
    /\ \E j, k \in DOMAIN ctd_particles :
          /\ j < k
          /\ ctd_particles[j].raw_data[9] = 64
          /\ ctd_particles[j].timestamp = ConvertTime(1075187008)
          /\ ctd_particles[k].raw_data[9] = 0
          /\ ctd_particles[k].timestamp = ConvertTime(369098752)

\* The days from 1970-01-01 to the day year/month/day of the proleptic
\* Gregorian calendar, counted in years that begin on 1 March
DaysFromCivil(year, month, day) ==
    LET y == IF month <= 2 THEN year - 1 ELSE year
        era == y \div 400
        yoe == y - era * 400
        mp == IF month > 2 THEN month - 3 ELSE month + 9
        doy == ((153 * mp + 2) \div 5) + day - 1
        doe == yoe * 365 + (yoe \div 4) - (yoe \div 100) + doy
    IN  era * 146097 + doe - 719468

\* The clock reading clk as UTC, in seconds since 1970-01-01 00:00:00
UtcSeconds(clk) ==
    DaysFromCivil(clk.year, clk.month, clk.day) * 86400
       + clk.hour * 3600 + clk.minute * 60 + clk.second

\* C32: the time of a tide record is the controller time at the head of its
\* line, and the time of a wave-burst record is the controller time of its
\* start line, which is not the one of its end line; both are the year,
\* month, day, hour, minute and second of that reading taken as UTC, in
\* seconds since 1970 with nothing added.
C32_ControllerTimeAsUtc ==
    \A k \in DOMAIN result_particles :
       LET pt == result_particles[k]
           last == Offset(LineOver(pt.end - 1))
       IN  /\ pt.unix_time = UtcSeconds(ClockOf(pt.start))
           /\ pt.type = "tide" => FirstLine(pt.start).kind = "tide"
           /\ pt.type = "wave" =>
                 /\ FirstLine(pt.start).kind = "wstart"
                 /\ FirstLine(last).kind = "wend"
                 /\ pt.unix_time # UtcSeconds(ClockOf(last))

\* A burst stamped 2012/01/01 00:00:00 on its start line and a tide line
\* stamped 2013/05/17 16:52:16, decoded in one span
C32_Witness ==
    /\ pc = "done"
    /\ \E j, k \in DOMAIN result_particles :
          /\ result_particles[j].type = "wave"
          /\ result_particles[j].start = 0
          /\ result_particles[j].unix_time = 1325376000
          /\ result_particles[k].type = "tide"
          /\ result_particles[k].start = 16
          /\ result_particles[k].unix_time = 1368809536

====
